---- MODULE Spec2Model ----
(***************************************************************************)
(* beatsaver-cacher: the harvest loop (init_cache), the eligibility filter *)
(* (should_cache_map), the record encoder (cache_map_data and the          *)
(* generate_protobuf_* helpers) and the snapshot writer (write_cache) of   *)
(* src/src/cacher.rs, driven as in src/src/main.rs.                        *)
(*                                                                         *)
(* Numbers.  TLC's integers are exactly Rust's i32, so i32 fields          *)
(* (duration, votes, notes) are plain integers.  Values that need more     *)
(* than 31 bits (the u32 key, the i64 unix timestamps) are kept as two     *)
(* limbs, W(hi, lo) = hi * 2^16 + lo with 0 <= lo < 2^16, so that the      *)
(* u32 range test (0 <= v <= 2^32 - 1) is 0 <= hi <= 2^16 - 1.             *)
(* Strings that the code parses (the map id) are sequences of one-letter   *)
(* strings; strings that are only copied are TLA+ strings.                 *)
(***************************************************************************)
EXTENDS Integers, Sequences, FiniteSets, TLC

VARIABLES
    pc,           \* position of main/init_cache: Fetching, Processing, Retrying, Done, Exited, Panicked; Call/Returned for the pure functions
    caching,      \* init_cache: let mut caching
    current_time, \* init_cache: let mut current_time (the cursor)
    last_map,     \* init_cache: let mut last_map: Option<MapDetail>
    map_list,     \* init_cache: map_list.map_metadata (id -> MapMetadata)
    page,         \* data.docs of the Ok response being processed
    idx,          \* position of `for map_data in data.docs` in page
    catalog,      \* the remote catalog the client answers from (pool indices)
    n_pages,      \* client side: non-empty pages answered so far
    reqwest_errs, \* client side: ReqwestError answers so far
    serde_errs,   \* client side: SerdeError answers so far
    backoffs,     \* sleep(3000 ms) calls completed by init_cache
    eligible_seen,\* history: the answered entries none of the four rejections applies to
    no_fail,      \* history: where a run given the same pages and no failed query stands
    fetched,      \* history of the client under the ordering contract: how often each catalog entry was in a page it answered (2 = more than once)
    write_ret,    \* write_cache's return value, NoneV until it returns
    io_err,       \* which step of write_cache failed, "none" if none did
    arg,          \* argument of the pure function under check
    ret           \* its result

vars == <<pc, caching, current_time, last_map, map_list, page, idx, catalog,
          n_pages, reqwest_errs, serde_errs, backoffs, eligible_seen, no_fail,
          fetched, write_ret, io_err, arg, ret>>

(***************************************************************************)
(* Bounds of the model.                                                    *)
(***************************************************************************)
\* entries per page; the code asks for page_size(100)
PageSize == 2
\* non-empty pages an unconstrained client may answer in one run
MaxPages == 2
\* failed queries (ReqwestError and SerdeError together) in one run
MaxFails == 2
\* entries of a catalog served under the ordering contract
MaxCatalog == 3
\* difficulties of a version handed to the mod-flag functions
MaxDiffs == 2

(***************************************************************************)
(* Option, results, wide integers.                                         *)
(***************************************************************************)
NoneV == [tag |-> "None"]
Some(v) == [tag |-> "Some", val |-> v]
IsSome(o) == o.tag = "Some"
IsNone(o) == o.tag = "None"

\* a panic (unwrap on None/Err) unwinds out of the function and aborts main
Panic == [tag |-> "Panic"]
Return(v) == [tag |-> "Return", val |-> v]

Limb == 2 ^ 16
W(hi, lo) == [hi |-> hi, lo |-> lo]

\* u32::try_from(i32): Err iff negative (i32::MAX < u32::MAX)
u32_try_from_i32(n) == IF n >= 0 THEN Some(n) ELSE NoneV

\* u32::try_from(i64): Err iff outside 0 ..= u32::MAX
u32_try_from_i64(w) == IF w.hi >= 0 /\ w.hi <= Limb - 1 THEN Some(w) ELSE NoneV

\* char::to_digit(16)
HexDigit(c) ==
    CASE c = "0" -> 0 [] c = "1" -> 1 [] c = "2" -> 2 [] c = "3" -> 3
      [] c = "4" -> 4 [] c = "5" -> 5 [] c = "6" -> 6 [] c = "7" -> 7
      [] c = "8" -> 8 [] c = "9" -> 9
      [] c = "a" \/ c = "A" -> 10 [] c = "b" \/ c = "B" -> 11
      [] c = "c" \/ c = "C" -> 12 [] c = "d" \/ c = "D" -> 13
      [] c = "e" \/ c = "E" -> 14 [] c = "f" \/ c = "F" -> 15
      [] OTHER -> -1

\* the digit loop of u32::from_str_radix: checked_mul(16) then checked_add(d)
RECURSIVE ParseDigits(_, _)
ParseDigits(ds, acc) ==
    IF ds = <<>> THEN Some(acc)
    ELSE LET d == HexDigit(Head(ds))
             lo16 == acc.lo * 16 + d
             nxt == W(acc.hi * 16 + (lo16 \div Limb), lo16 % Limb)
         IN  IF d < 0 THEN NoneV                  \* InvalidDigit
             ELSE IF nxt.hi > Limb - 1 THEN NoneV \* PosOverflow
             ELSE ParseDigits(Tail(ds), nxt)

\* u32::from_str_radix(s, 16): Empty, a lone sign and "-" are errors, a
\* leading "+" is accepted
u32_from_str_radix_16(s) ==
    IF s = <<>> THEN NoneV
    ELSE LET ds == IF Head(s) = "+" THEN Tail(s) ELSE s
         IN  IF ds = <<>> THEN NoneV ELSE ParseDigits(ds, W(0, 0))

B(b) == IF b THEN 1 ELSE 0
\* bit i of a mask
Bit(m, i) == (m \div (2 ^ i)) % 2

(***************************************************************************)
(* The eligibility filter and the record encoder.                          *)
(***************************************************************************)
MapStates == {"Uploaded", "Testplay", "Published", "Feedback", "Scheduled"}
AIDeclarationTypes == {"Admin", "Uploader", "SageScore", "None"}

\* a slip: the version's state is not looked at
should_cache_map_any_version_state(map) ==
    IF IsNone(map.last_published_at) THEN FALSE
    ELSE IF map.declared_ai # "None" THEN FALSE
    ELSE IF map.automapper THEN FALSE
    ELSE TRUE

\* a slip: the automapper flag is left to the query
should_cache_map_no_automapper(map) ==
    IF IsNone(map.last_published_at) THEN FALSE
    ELSE IF map.versions[1].state # "Published" THEN FALSE
    ELSE IF map.declared_ai # "None" THEN FALSE
    ELSE TRUE

should_cache_map(map) ==
    IF IsNone(map.last_published_at) THEN FALSE
    ELSE IF map.versions[1].state # "Published" THEN FALSE
    ELSE IF map.declared_ai # "None" THEN FALSE
    ELSE IF map.automapper THEN FALSE
    ELSE TRUE

MapModsDefault ==
    [cinema |-> FALSE, mapping_extensions |-> FALSE, chroma |-> FALSE,
     noodle_extensions |-> FALSE, vivify |-> FALSE]

\* the body of get_map_mods' loop, from difficulty i on
RECURSIVE ModsLoop(_, _, _)
ModsLoop(diffs, i, mods) ==
    IF i > Len(diffs) THEN mods
    ELSE LET diff == diffs[i]
             m1 == IF diff.chroma THEN [mods EXCEPT !.chroma = TRUE] ELSE mods
             m2 == IF diff.cinema THEN [m1 EXCEPT !.cinema = TRUE] ELSE m1
             m3 == IF diff.me THEN [m2 EXCEPT !.mapping_extensions = TRUE] ELSE m2
             m4 == IF diff.ne THEN [m3 EXCEPT !.noodle_extensions = TRUE] ELSE m3
             m5 == IF diff.vivify THEN [m4 EXCEPT !.vivify = TRUE] ELSE m4
         IN  ModsLoop(diffs, i + 1, m5)

\* a slip: only the first difficulty is looked at
get_map_mods_first_only(map_version) ==
    IF map_version.diffs = <<>> THEN MapModsDefault
    ELSE ModsLoop(<<map_version.diffs[1]>>, 1, MapModsDefault)

get_map_mods(map_version) == ModsLoop(map_version.diffs, 1, MapModsDefault)

generate_protobuf_ranked_values(diff) ==
    [score_saber |->
        [is_ranked |-> IsSome(diff.ss_stars),
         stars |-> IF IsSome(diff.ss_stars) THEN diff.ss_stars.val ELSE 0],
     beat_leader |->
        [is_ranked |-> IsSome(diff.bl_stars),
         stars |-> IF IsSome(diff.bl_stars) THEN diff.bl_stars.val ELSE 0]]

generate_protobuf_map_mods(map_version) ==
    LET map_mods == get_map_mods(map_version)
    IN  B(map_mods.cinema)
        + B(map_mods.mapping_extensions) * 2
        + B(map_mods.chroma) * 4
        + B(map_mods.noodle_extensions) * 8
        + B(map_mods.vivify) * 16

generate_protobuf_diff_mods(diff) ==
    B(diff.cinema) + B(diff.me) * 2 + B(diff.chroma) * 4 + B(diff.ne) * 8
    + B(diff.vivify) * 16

\* one pushed Difficulty; environment.as_ref().unwrap() is checked by the caller
ProtobufDiff(diff) ==
    [njs |-> diff.njs,
     notes |-> LET n == u32_try_from_i32(diff.notes)
               IN  IF IsSome(n) THEN n.val ELSE 0,
     characteristic_name |-> diff.characteristic,
     difficulty_name |-> diff.difficulty,
     mods |-> generate_protobuf_diff_mods(diff),
     environment_name |-> diff.environment.val,
     ranked |-> generate_protobuf_ranked_values(diff)]

\* Panic when a difficulty has no environment, else Return(the list)
generate_protobuf_diffs(map_version) ==
    IF \E i \in 1..Len(map_version.diffs) : IsNone(map_version.diffs[i].environment)
    THEN Panic
    ELSE Return([i \in 1..Len(map_version.diffs) |-> ProtobufDiff(map_version.diffs[i])])

generate_protobuf_curator(map) ==
    IF IsSome(map.curator) THEN Some(map.curator.val.name) ELSE NoneV

UnwrapOr0(o) == IF IsSome(o) THEN o.val ELSE 0

\* a slip: the down count taken from `up`
generate_protobuf_votes_copied(up, down) ==
    [up |-> UnwrapOr0(u32_try_from_i32(up)),
     down |-> UnwrapOr0(u32_try_from_i32(up))]

generate_protobuf_votes(up, down) ==
    [up |-> UnwrapOr0(u32_try_from_i32(up)),
     down |-> UnwrapOr0(u32_try_from_i32(down))]

\* a slip: hash, mods and difficulties taken from the latest version
cache_map_data_latest_version(map) ==
    IF ~should_cache_map(map) THEN Return(NoneV)
    ELSE
    LET latest == map.versions[Len(map.versions)]
        key == u32_from_str_radix_16(map.id)
        duration == u32_try_from_i32(map.metadata.duration)
        uploaded == IF IsSome(map.last_published_at)
                    THEN u32_try_from_i64(map.last_published_at.val) ELSE NoneV
        last_updated == IF IsSome(map.updated_at)
                        THEN u32_try_from_i64(map.updated_at.val) ELSE NoneV
        difficulties == generate_protobuf_diffs(latest)
    IN  IF IsNone(key) THEN Panic
        ELSE IF IsNone(duration) THEN Panic
        ELSE IF IsNone(map.last_published_at) THEN Return(NoneV)
        ELSE IF IsNone(uploaded) THEN Panic
        ELSE IF IsNone(map.updated_at) THEN Return(NoneV)
        ELSE IF IsNone(last_updated) THEN Panic
        ELSE IF difficulties.tag = "Panic" THEN Panic
        ELSE Return(Some(
            [key |-> key.val,
             hash |-> latest.hash,
             song_name |-> map.metadata.song_name,
             song_sub_name |-> map.metadata.song_sub_name,
             song_author_name |-> map.metadata.song_author_name,
             level_author_name |-> map.metadata.level_author_name,
             duration |-> duration.val,
             uploaded |-> uploaded.val,
             last_updated |-> last_updated.val,
             mods |-> generate_protobuf_map_mods(latest),
             curator_name |-> generate_protobuf_curator(map),
             votes |-> generate_protobuf_votes(map.stats.upvotes, map.stats.downvotes),
             difficulties |-> difficulties.val]))

\* cache_map_data: the struct's field expressions are evaluated in the order
\* written, so the first failing one decides between a panic (unwrap) and an
\* early `return None` (the ? on a missing timestamp)
cache_map_data(map) ==
    IF ~should_cache_map(map) THEN Return(NoneV)
    ELSE
    LET key == u32_from_str_radix_16(map.id)
        duration == u32_try_from_i32(map.metadata.duration)
        uploaded == IF IsSome(map.last_published_at)
                    THEN u32_try_from_i64(map.last_published_at.val) ELSE NoneV
        last_updated == IF IsSome(map.updated_at)
                        THEN u32_try_from_i64(map.updated_at.val) ELSE NoneV
        difficulties == generate_protobuf_diffs(map.versions[1])
    IN  IF IsNone(key) THEN Panic
        ELSE IF IsNone(duration) THEN Panic
        ELSE IF IsNone(map.last_published_at) THEN Return(NoneV)
        ELSE IF IsNone(uploaded) THEN Panic
        ELSE IF IsNone(map.updated_at) THEN Return(NoneV)
        ELSE IF IsNone(last_updated) THEN Panic
        ELSE IF difficulties.tag = "Panic" THEN Panic
        ELSE Return(Some(
            [key |-> key.val,
             hash |-> map.versions[1].hash,
             song_name |-> map.metadata.song_name,
             song_sub_name |-> map.metadata.song_sub_name,
             song_author_name |-> map.metadata.song_author_name,
             level_author_name |-> map.metadata.level_author_name,
             duration |-> duration.val,
             uploaded |-> uploaded.val,
             last_updated |-> last_updated.val,
             mods |-> generate_protobuf_map_mods(map.versions[1]),
             curator_name |-> generate_protobuf_curator(map),
             votes |-> generate_protobuf_votes(map.stats.upvotes, map.stats.downvotes),
             difficulties |-> difficulties.val]))

(***************************************************************************)
(* Catalog entries (beatsaver_api Map / MapDetail values) the client can    *)
(* answer with.  njs and the star ratings are small whole numbers, which    *)
(* `as f32` leaves unchanged.                                               *)
(***************************************************************************)
BaseDiff ==
    [njs |-> 16, notes |-> 500, characteristic |-> "Standard",
     difficulty |-> "Expert", cinema |-> FALSE, me |-> FALSE, chroma |-> FALSE,
     ne |-> FALSE, vivify |-> FALSE, environment |-> Some("DefaultEnvironment"),
     ss_stars |-> NoneV, bl_stars |-> NoneV]

BaseVersion == [hash |-> "h1", state |-> "Published", diffs |-> <<BaseDiff>>]

BaseMap ==
    [id |-> <<"1", "a">>, uploaded |-> 7,
     last_published_at |-> Some(W(0, 7)), updated_at |-> Some(W(0, 8)),
     declared_ai |-> "None", automapper |-> FALSE,
     versions |-> <<BaseVersion>>,
     metadata |-> [song_name |-> "song", song_sub_name |-> "sub",
                   song_author_name |-> "artist", level_author_name |-> "mapper",
                   duration |-> 120],
     stats |-> [upvotes |-> 10, downvotes |-> 2],
     curator |-> NoneV]

Pool ==
    << \* 1: eligible, chroma + noodle on two difficulties, curated
       [BaseMap EXCEPT
          !.versions = <<[BaseVersion EXCEPT !.diffs =
              <<[BaseDiff EXCEPT !.chroma = TRUE, !.ss_stars = Some(9)],
                [BaseDiff EXCEPT !.ne = TRUE, !.difficulty = "ExpertPlus",
                                 !.notes = -1]>>]>>,
          !.curator = Some([name |-> "curator"])],
       \* 2: eligible, a second unpublished version, a negative vote count
       [BaseMap EXCEPT
          !.id = <<"2", "B">>, !.uploaded = 5,
          !.last_published_at = Some(W(0, 5)),
          !.versions = <<[BaseVersion EXCEPT !.hash = "h2"],
                         [BaseVersion EXCEPT !.hash = "h2b", !.state = "Testplay",
                            !.diffs = <<[BaseDiff EXCEPT !.vivify = TRUE]>>]>>,
          !.stats = [upvotes |-> 3, downvotes |-> -5]],
       \* 3: eligible, the id of entry 1 again with other content, same
       \*    publication time as entry 2
       [BaseMap EXCEPT
          !.uploaded = 5, !.last_published_at = Some(W(0, 6)),
          !.versions = <<[BaseVersion EXCEPT !.hash = "h3",
              !.diffs = <<[BaseDiff EXCEPT !.cinema = TRUE]>>]>>],
       \* 4: never published
       [BaseMap EXCEPT !.id = <<"4">>, !.uploaded = 6,
                       !.last_published_at = NoneV],
       \* 5: first version not published
       [BaseMap EXCEPT !.id = <<"5">>, !.uploaded = 4,
          !.versions = <<[BaseVersion EXCEPT !.state = "Testplay"]>>],
       \* 6: declared AI-generated
       [BaseMap EXCEPT !.id = <<"6">>, !.uploaded = 3,
                       !.declared_ai = "Uploader"],
       \* 7: auto-mapped
       [BaseMap EXCEPT !.id = <<"7">>, !.uploaded = 3, !.automapper = TRUE],
       \* 8: eligible, the id of entry 2 again, no last-updated timestamp
       [BaseMap EXCEPT !.id = <<"2", "B">>, !.uploaded = 2,
                       !.updated_at = NoneV],
       \* 9: eligible, id not hexadecimal
       [BaseMap EXCEPT !.id = <<"z", "z">>, !.uploaded = 4],
       \* 10: eligible, id wider than 32 bits
       [BaseMap EXCEPT !.id = <<"1", "0", "0", "0", "0", "0", "0", "0", "0">>,
                       !.uploaded = 6],
       \* 11: eligible, negative duration
       [BaseMap EXCEPT !.id = <<"b">>, !.uploaded = 2,
                       !.metadata.duration = -1],
       \* 12: eligible, published after 2106
       [BaseMap EXCEPT !.id = <<"c">>, !.uploaded = 8,
                       !.last_published_at = Some(W(Limb, 0))],
       \* 13: eligible, updated before 1970
       [BaseMap EXCEPT !.id = <<"d">>, !.uploaded = 1,
                       !.updated_at = Some(W(-1, Limb - 1))],
       \* 14: eligible, a difficulty without environment
       [BaseMap EXCEPT !.id = <<"e">>, !.uploaded = 1,
          !.versions = <<[BaseVersion EXCEPT !.diffs =
              <<BaseDiff, [BaseDiff EXCEPT !.environment = NoneV]>>]>>] >>

PoolIdx == 1..Len(Pool)

\* chrono::Utc::now() when init_cache starts: later than every entry
Now == 9

\* sequences over S of length 0..n
RECURSIVE SeqsUpTo(_, _)
SeqsUpTo(S, n) ==
    IF n = 0 THEN {<<>>}
    ELSE LET shorter == SeqsUpTo(S, n - 1)
         IN  shorter \cup {Append(q, x) : q \in {r \in shorter : Len(r) = n - 1}, x \in S}

(***************************************************************************)
(* The collaborator client (BeatSaverClient::latest).                      *)
(***************************************************************************)
\* any answer at all: up to PageSize entries of the catalog in any order
AnyPages == SeqsUpTo(catalog, PageSize)

\* what before(cursor).automapper(false) selects
Selected(cursor) ==
    {i \in catalog : Pool[i].uploaded < cursor /\ ~Pool[i].automapper}

\* the ordering contract: the newest at most PageSize selected entries, in
\* non-increasing publication-time order, ties in any order
ContractPages(cursor) ==
    LET sel == Selected(cursor)
        n == IF Cardinality(sel) < PageSize THEN Cardinality(sel) ELSE PageSize
    IN  {p \in SeqsUpTo(sel, n) :
            /\ Len(p) = n
            /\ \A a, b \in 1..n : a < b =>
                   /\ p[a] # p[b]
                   /\ Pool[p[a]].uploaded >= Pool[p[b]].uploaded
            /\ \A i \in sel : (\A a \in 1..n : p[a] # i) =>
                   \A a \in 1..n : Pool[i].uploaded <= Pool[p[a]].uploaded}

(***************************************************************************)
(* init_cache.                                                             *)
(***************************************************************************)
\* a slip: the first record stored under a key is kept (entry().or_insert)
Insert_keep_first(m, key, value) ==
    [k \in DOMAIN m \cup {key} |-> IF k \in DOMAIN m THEN m[k] ELSE value]

\* a slip: the map holds the latest record only
Insert_single_slot(m, key, value) ==
    [k \in {key} |-> value]

\* HashMap::insert: the value stored under key, replacing any earlier one
Insert(m, key, value) ==
    [k \in DOMAIN m \cup {key} |-> IF k = key THEN value ELSE m[k]]

EmptyMap == [k \in {} |-> NoneV]

\* cache_map_data(&map_data) for each entry of the pool, computed once
CachedMapData == [i \in PoolIdx |-> cache_map_data(Pool[i])]

\* the body of `for map_data in data.docs` for catalog entry i, on
\* h = [map_list, last_map]: Panic, or Return(h afterwards)
for_body(h, i) ==
    LET map_data == Pool[i]
        map_key == map_data.id
        res == CachedMapData[i]
    IN  IF res.tag = "Panic" THEN Panic
        ELSE IF IsSome(res.val)
        THEN Return([map_list |-> Insert(h.map_list, map_key, res.val.val),
                     last_map |-> Some(i)])
        ELSE Return(h)

\* `if let Some(ref map) = last_map { current_time = map.uploaded }`
cursor_after_page(lm, cursor) ==
    IF IsSome(lm) THEN Pool[lm.val].uploaded ELSE cursor

Client == <<catalog, n_pages, reqwest_errs, serde_errs, eligible_seen, no_fail,
            fetched>>
Writer == <<write_ret, io_err>>
Pure == <<arg, ret>>

\* Ok(data) with data.docs.is_empty(): caching = false ends the while loop
\* and init_cache returns map_list
OnOkEmpty ==
    /\ pc = "Fetching"
    /\ caching
    /\ caching' = FALSE
    /\ pc' = "Done"
    /\ UNCHANGED <<current_time, last_map, map_list, page, idx, backoffs>>

\* a slip: the for loop starts at the second entry
OnOkPage_from_second(docs) ==
    /\ pc = "Fetching"
    /\ caching
    /\ docs # <<>>
    /\ page' = docs
    /\ idx' = 2
    /\ pc' = "Processing"
    /\ UNCHANGED <<caching, current_time, last_map, map_list, backoffs>>

\* Ok(data) with entries: enter `for map_data in data.docs`
OnOkPage(docs) ==
    /\ pc = "Fetching"
    /\ caching
    /\ docs # <<>>
    /\ page' = docs
    /\ idx' = 1
    /\ pc' = "Processing"
    /\ UNCHANGED <<caching, current_time, last_map, map_list, backoffs>>

\* a slip: no sleep, straight back to the loop head
OnReqwestError_no_sleep ==
    /\ pc = "Fetching"
    /\ caching
    /\ UNCHANGED <<pc, caching, current_time, last_map, map_list, page, idx, backoffs>>

\* Err(ClientError::ReqwestError): log, then sleep(3000 ms)
OnReqwestError ==
    /\ pc = "Fetching"
    /\ caching
    /\ pc' = "Retrying"
    /\ UNCHANGED <<caching, current_time, last_map, map_list, page, idx, backoffs>>

\* a slip: the unparsable page is skipped by moving the cursor on
OnSerdeError_skips ==
    /\ pc = "Fetching"
    /\ caching
    /\ current_time' = current_time - 1
    /\ UNCHANGED <<pc, caching, last_map, map_list, page, idx, backoffs>>

\* a slip: a response that cannot be parsed ends the run
OnSerdeError_gives_up ==
    /\ pc = "Fetching"
    /\ caching
    /\ caching' = FALSE
    /\ pc' = "Done"
    /\ UNCHANGED <<current_time, last_map, map_list, page, idx, backoffs>>

\* Err(ClientError::SerdeError): log only, fall through to the loop head
OnSerdeError ==
    /\ pc = "Fetching"
    /\ caching
    /\ UNCHANGED <<pc, caching, current_time, last_map, map_list, page, idx, backoffs>>

\* a slip: after the sleep the page is skipped, not asked for again
Backoff_skips ==
    /\ pc = "Retrying"
    /\ backoffs' = backoffs + 1
    /\ current_time' = current_time - 1
    /\ pc' = "Fetching"
    /\ UNCHANGED <<caching, last_map, map_list, page, idx>>
    /\ UNCHANGED <<Client, Writer, Pure>>

\* the 3 s sleep is over: `continue`
Backoff ==
    /\ pc = "Retrying"
    /\ backoffs' = backoffs + 1
    /\ pc' = "Fetching"
    /\ UNCHANGED <<caching, current_time, last_map, map_list, page, idx>>
    /\ UNCHANGED <<Client, Writer, Pure>>

\* one turn of `for map_data in data.docs`
ProcessEntry ==
    /\ pc = "Processing"
    /\ idx <= Len(page)
    /\ LET r == for_body([map_list |-> map_list, last_map |-> last_map], page[idx])
       IN  IF r.tag = "Panic"
           THEN /\ pc' = "Panicked"
                /\ UNCHANGED <<map_list, last_map, idx>>
           ELSE /\ map_list' = r.val.map_list
                /\ last_map' = r.val.last_map
                /\ idx' = idx + 1
                /\ pc' = pc
    /\ UNCHANGED <<caching, current_time, page, backoffs>>
    /\ UNCHANGED <<Client, Writer, Pure>>

\* after the for loop: the cursor moves to last_map's time, sleep(100 ms),
\* back to the loop head
EndPage ==
    /\ pc = "Processing"
    /\ idx > Len(page)
    /\ current_time' = cursor_after_page(last_map, current_time)
    /\ page' = <<>>
    /\ idx' = 0
    /\ pc' = "Fetching"
    /\ UNCHANGED <<caching, last_map, map_list, backoffs>>
    /\ UNCHANGED <<Client, Writer, Pure>>

(***************************************************************************)
(* write_cache, called once by main with what init_cache returned.         *)
(***************************************************************************)
\* write_all_ok, finish_ok, fs_ok: whether gz.write_all, gz.finish and
\* fs::write return Ok.  The result and the steps that failed.
write_cache(write_all_ok, finish_ok, fs_ok) ==
    LET e1 == IF write_all_ok THEN {} ELSE {"write_all"}   \* let _ = ...
    IN  IF ~finish_ok
        THEN [ret |-> Panic, err |-> e1 \cup {"finish"}]    \* .unwrap()
        ELSE IF ~fs_ok
        THEN [ret |-> Return(FALSE), err |-> e1 \cup {"fs"}]
        ELSE [ret |-> Return(TRUE), err |-> e1]

WriteCache ==
    /\ pc = "Done"
    /\ \E write_all_ok, finish_ok, fs_ok \in BOOLEAN :
          LET r == write_cache(write_all_ok, finish_ok, fs_ok)
          IN  /\ io_err' = r.err
              /\ IF r.ret.tag = "Panic"
                 THEN pc' = "Panicked" /\ write_ret' = write_ret
                 ELSE pc' = "Exited" /\ write_ret' = Some(r.ret.val)
    /\ UNCHANGED <<caching, current_time, last_map, map_list, page, idx, backoffs>>
    /\ UNCHANGED <<Client, Pure>>

(***************************************************************************)
(* History kept beside the client's answers.                               *)
(***************************************************************************)
\* one of the four rejections of the Eligibility Filter applies to the entry
Rejected(map) ==
    \/ IsNone(map.last_published_at)
    \/ map.versions[1].state # "Published"
    \/ map.declared_ai # "None"
    \/ map.automapper

Eligible(docs) ==
    {docs[j] : j \in {k \in 1..Len(docs) : ~Rejected(Pool[docs[k]])}}

\* the for loop over a whole page, from entry j on
RECURSIVE RunDocs(_, _, _)
RunDocs(h, docs, j) ==
    IF j > Len(docs) THEN Return(h)
    ELSE LET r == for_body(h, docs[j])
         IN  IF r.tag = "Panic" THEN Panic ELSE RunDocs(r.val, docs, j + 1)

\* the failure-free run after one more Ok answer
NoFailAfter(nf, docs) ==
    IF nf.tag = "Panic" THEN nf
    ELSE IF docs = <<>> THEN Return([nf.val EXCEPT !.done = TRUE])
    ELSE LET r == RunDocs([map_list |-> nf.val.map_list,
                           last_map |-> nf.val.last_map], docs, 1)
         IN  IF r.tag = "Panic" THEN Panic
             ELSE Return([map_list |-> r.val.map_list,
                          last_map |-> r.val.last_map,
                          current_time |-> cursor_after_page(r.val.last_map,
                                                             nf.val.current_time),
                          done |-> FALSE])

\* the delivery counts after one more page answered under the contract
FetchedAfter(f, docs) ==
    [i \in DOMAIN f |->
        LET n == f[i] + Cardinality({j \in 1..Len(docs) : docs[j] = i})
        IN  IF n > 2 THEN 2 ELSE n]

(***************************************************************************)
(* The run against a client that may answer anything.                      *)
(***************************************************************************)
InitLoop ==
    /\ pc = "Fetching"
    /\ caching = TRUE
    /\ current_time = Now
    /\ last_map = NoneV
    /\ map_list = EmptyMap
    /\ page = <<>>
    /\ idx = 0
    /\ n_pages = 0
    /\ reqwest_errs = 0
    /\ serde_errs = 0
    /\ backoffs = 0
    /\ eligible_seen = {}
    /\ no_fail = Return([map_list |-> EmptyMap, last_map |-> NoneV,
                         current_time |-> Now, done |-> FALSE])
    /\ write_ret = NoneV
    /\ io_err = {}
    /\ arg = NoneV
    /\ ret = NoneV

\* the entries an unconstrained client draws its answers from.  Either the
\* three eligible ones, a never-published and an auto-mapped one, one the
\* encoder drops and one it panics on; or two eligible ones, one with an
\* unpublished version, an AI-declared one and one the encoder panics on.
AnyCatalogs == {{1, 2, 3, 4, 7, 8, 9}, {1, 2, 5, 6, 9}}

Init ==
    /\ InitLoop
    /\ catalog \in AnyCatalogs
    /\ fetched = [i \in catalog |-> 0]

AnswerEmpty ==
    /\ OnOkEmpty
    /\ no_fail' = NoFailAfter(no_fail, <<>>)
    /\ UNCHANGED <<catalog, n_pages, reqwest_errs, serde_errs, eligible_seen, fetched>>
    /\ UNCHANGED <<Writer, Pure>>

AnswerPage ==
    /\ n_pages < MaxPages
    /\ \E docs \in AnyPages :
          /\ OnOkPage(docs)
          /\ eligible_seen' = eligible_seen \cup Eligible(docs)
          /\ no_fail' = NoFailAfter(no_fail, docs)
    /\ n_pages' = n_pages + 1
    /\ UNCHANGED <<catalog, reqwest_errs, serde_errs, fetched, Writer, Pure>>

AnswerReqwestError ==
    /\ reqwest_errs + serde_errs < MaxFails
    /\ OnReqwestError
    /\ reqwest_errs' = reqwest_errs + 1
    /\ UNCHANGED <<catalog, n_pages, serde_errs, eligible_seen, no_fail, fetched>>
    /\ UNCHANGED <<Writer, Pure>>

AnswerSerdeError ==
    /\ reqwest_errs + serde_errs < MaxFails
    /\ OnSerdeError
    /\ serde_errs' = serde_errs + 1
    /\ UNCHANGED <<catalog, n_pages, reqwest_errs, eligible_seen, no_fail, fetched>>
    /\ UNCHANGED <<Writer, Pure>>

Next ==
    \/ AnswerEmpty
    \/ AnswerPage
    \/ AnswerReqwestError
    \/ AnswerSerdeError
    \/ Backoff
    \/ ProcessEntry
    \/ EndPage
    \/ WriteCache

Spec == Init /\ [][Next]_vars

(***************************************************************************)
(* The run against a client that keeps the ordering contract over a        *)
(* finite catalog.  A failed query is possible MaxFails times.             *)
(***************************************************************************)
InitCatalog ==
    /\ InitLoop
    /\ catalog \in {c \in SUBSET PoolIdx : Cardinality(c) <= MaxCatalog}
    /\ fetched = [i \in catalog |-> 0]

ContractEmpty ==
    /\ ContractPages(current_time) = {<<>>}
    /\ OnOkEmpty
    /\ no_fail' = NoFailAfter(no_fail, <<>>)
    /\ UNCHANGED <<catalog, n_pages, reqwest_errs, serde_errs, eligible_seen, fetched>>
    /\ UNCHANGED <<Writer, Pure>>

ContractPage ==
    /\ \E docs \in ContractPages(current_time) :
          /\ OnOkPage(docs)
          /\ eligible_seen' = eligible_seen \cup Eligible(docs)
          /\ no_fail' = NoFailAfter(no_fail, docs)
          /\ fetched' = FetchedAfter(fetched, docs)
    /\ UNCHANGED <<catalog, n_pages, reqwest_errs, serde_errs, Writer, Pure>>

NextCatalog ==
    \/ ContractEmpty
    \/ ContractPage
    \/ AnswerReqwestError
    \/ AnswerSerdeError
    \/ Backoff
    \/ ProcessEntry
    \/ EndPage
    \/ WriteCache

SpecCatalog == InitCatalog /\ [][NextCatalog]_vars

\* the loop is one sequential flow and the client answers every query: a
\* step that can be taken is taken
FairSpecCatalog == SpecCatalog /\ WF_vars(NextCatalog)

(***************************************************************************)
(* The pure functions on their own: arg is a Map, one call, one result.    *)
(***************************************************************************)
\* every combination of the four fields the filter reads
FilterMaps ==
    {[BaseMap EXCEPT !.last_published_at = lpa,
                     !.versions = <<[BaseVersion EXCEPT !.state = st]>>,
                     !.declared_ai = ai, !.automapper = am] :
        lpa \in {NoneV, Some(W(0, 7))}, st \in MapStates,
        ai \in AIDeclarationTypes, am \in BOOLEAN}

FlagSets ==
    [cinema : BOOLEAN, me : BOOLEAN, chroma : BOOLEAN, ne : BOOLEAN,
     vivify : BOOLEAN]

DiffOf(f) ==
    [BaseDiff EXCEPT !.cinema = f.cinema, !.me = f.me, !.chroma = f.chroma,
                     !.ne = f.ne, !.vivify = f.vivify]

\* every difficulty list of up to MaxDiffs entries, by flags
ModsMaps ==
    {[BaseMap EXCEPT !.versions =
         <<[BaseVersion EXCEPT !.diffs = [j \in 1..Len(fs) |-> DiffOf(fs[j])]]>>] :
        fs \in SeqsUpTo(FlagSets, MaxDiffs)}

I32Samples == {-2147483647 - 1, -2147483647, -5, -1, 0, 1, 5, 2147483647}

VotesMaps ==
    {[BaseMap EXCEPT !.stats = [upvotes |-> u, downvotes |-> d]] :
        u \in I32Samples, d \in I32Samples}

PureMaps ==
    FilterMaps \cup ModsMaps \cup VotesMaps \cup {Pool[i] : i \in PoolIdx}

InitPure ==
    /\ pc = "Call"
    /\ arg \in PureMaps
    /\ ret = NoneV
    /\ caching = TRUE
    /\ current_time = Now
    /\ last_map = NoneV
    /\ map_list = EmptyMap
    /\ page = <<>>
    /\ idx = 0
    /\ catalog = {}
    /\ n_pages = 0
    /\ reqwest_errs = 0
    /\ serde_errs = 0
    /\ backoffs = 0
    /\ eligible_seen = {}
    /\ no_fail = Panic
    /\ fetched = <<>>
    /\ write_ret = NoneV
    /\ io_err = {}

Loop == <<caching, current_time, last_map, map_list, page, idx, backoffs>>

\* should_cache_map(&map)
CallShouldCacheMap ==
    /\ pc = "Call"
    /\ ret' = [fn |-> "should_cache_map", val |-> should_cache_map(arg)]
    /\ pc' = "Returned"
    /\ UNCHANGED <<arg, Loop, Client, Writer>>

\* generate_protobuf_map_mods(&map.versions[0])
CallMapMods ==
    /\ pc = "Call"
    /\ ret' = [fn |-> "generate_protobuf_map_mods",
               val |-> generate_protobuf_map_mods(arg.versions[1])]
    /\ pc' = "Returned"
    /\ UNCHANGED <<arg, Loop, Client, Writer>>

\* generate_protobuf_votes(map.stats.upvotes, map.stats.downvotes)
CallVotes ==
    /\ pc = "Call"
    /\ ret' = [fn |-> "generate_protobuf_votes",
               val |-> generate_protobuf_votes(arg.stats.upvotes, arg.stats.downvotes)]
    /\ pc' = "Returned"
    /\ UNCHANGED <<arg, Loop, Client, Writer>>

\* cache_map_data(&map)
CallCacheMapData ==
    /\ pc = "Call"
    /\ ret' = [fn |-> "cache_map_data", val |-> cache_map_data(arg)]
    /\ pc' = "Returned"
    /\ UNCHANGED <<arg, Loop, Client, Writer>>

NextPure ==
    \/ CallShouldCacheMap
    \/ CallMapMods
    \/ CallVotes
    \/ CallCacheMapData

SpecPure == InitPure /\ [][NextPure]_vars

(***************************************************************************)
(* Properties.                                                             *)
(***************************************************************************)
\* the value fits an unsigned 32-bit field
InU32(w) == w.hi >= 0 /\ w.hi <= Limb - 1

\* the Record Encoder's requirements on an entry, as the data model states
\* them: hexadecimal id of at most 32 bits, non-negative duration, both
\* timestamps present and representable, an environment on every difficulty
Encodable(map) ==
    /\ IsSome(u32_from_str_radix_16(map.id))
    /\ map.metadata.duration >= 0
    /\ IsSome(map.last_published_at)
    /\ InU32(map.last_published_at.val)
    /\ IsSome(map.updated_at)
    /\ InU32(map.updated_at.val)
    /\ \A j \in 1..Len(map.versions[1].diffs) :
          IsSome(map.versions[1].diffs[j].environment)

NoFailedQuery == reqwest_errs + serde_errs = 0

\* C1: under the ordering contract, with finitely many failed queries, the
\* harvest loop eventually leaves the while loop (caching = false, Done).
\* A run the encoder aborts (C6) is not held against the claim here.
C1_HarvestReachesDone == <>(~caching \/ pc = "Panicked")

\* C2: when the loop finishes a non-empty page, the cursor is the
\* publication time of the last entry of that page in page order, whatever
\* the filter said about it.
C2_CursorIsLastEntryOfPage ==
    [][(pc = "Processing" /\ pc' = "Fetching")
          => current_time' = Pool[page[Len(page)]].uploaded]_vars

C4_SnapshotOnlyEligible ==
    /\ \A k \in DOMAIN map_list :
          \E i \in eligible_seen :
             /\ Pool[i].id = k
             /\ ~Rejected(Pool[i])
             /\ CachedMapData[i] = Return(Some(map_list[k]))
    /\ \A i \in catalog : Rejected(Pool[i]) => Pool[i].id \notin DOMAIN map_list

\* mid-page: a rejected entry of each kind has been passed over at some
\* point; here an auto-mapped one, with a record already stored
C4_Witness ==
    /\ pc = "Processing"
    /\ idx = 2
    /\ Len(page) = 2
    /\ Pool[page[1]].automapper
    /\ DOMAIN map_list # {}

\* C5: whatever pages were answered, a run with transient failures in
\* between ends with the snapshot and the cursor of the run without them,
\* and it slept once per transient failure.
C5_RetryTransparent ==
    pc = "Done" =>
        /\ no_fail = Return([map_list |-> map_list, last_map |-> last_map,
                             current_time |-> current_time, done |-> TRUE])
        /\ backoffs = reqwest_errs

C5_Witness ==
    /\ pc = "Done"
    /\ reqwest_errs = 2
    /\ backoffs = 2
    /\ n_pages = 2
    /\ DOMAIN map_list # {}
    /\ current_time # Now

\* C6: an entry that passes the filter and cannot be encoded is left out;
\* the loop never aborts.
C6_EncodeInvalidNeverAborts == ~(pc = "Panicked" /\ caching)

\* C7: should_cache_map is true exactly when none of the four rejections
\* applies.
C7_FilterIffNoRejection ==
    (pc = "Returned" /\ ret.fn = "should_cache_map")
        => (ret.val <=> ~( \/ IsNone(arg.last_published_at)
                           \/ arg.versions[1].state # "Published"
                           \/ arg.declared_ai # "None"
                           \/ arg.automapper ))

\* rejected for the automapper flag alone
C7_Witness ==
    /\ pc = "Returned"
    /\ ret.fn = "should_cache_map"
    /\ arg.automapper
    /\ IsSome(arg.last_published_at)
    /\ arg.versions[1].state = "Published"
    /\ arg.declared_ai = "None"
    /\ ret.val = FALSE

\* C8: mods is within 0..31 and bit 0/1/2/3/4 is set exactly when some
\* difficulty of the version sets cinema/me/chroma/ne/vivify.
C8_ModsIsOrOfFlags ==
    (pc = "Returned" /\ ret.fn = "generate_protobuf_map_mods")
        => LET diffs == arg.versions[1].diffs
               D == 1..Len(diffs)
           IN  /\ ret.val \in 0..31
               /\ Bit(ret.val, 0) = 1 <=> \E j \in D : diffs[j].cinema
               /\ Bit(ret.val, 1) = 1 <=> \E j \in D : diffs[j].me
               /\ Bit(ret.val, 2) = 1 <=> \E j \in D : diffs[j].chroma
               /\ Bit(ret.val, 3) = 1 <=> \E j \in D : diffs[j].ne
               /\ Bit(ret.val, 4) = 1 <=> \E j \in D : diffs[j].vivify

\* chroma on the first difficulty only, vivify on the second only: 4 + 16
C8_Witness ==
    /\ pc = "Returned"
    /\ ret.fn = "generate_protobuf_map_mods"
    /\ Len(arg.versions[1].diffs) = 2
    /\ arg.versions[1].diffs[1].chroma
    /\ ~arg.versions[1].diffs[1].vivify
    /\ arg.versions[1].diffs[2].vivify
    /\ ~arg.versions[1].diffs[2].chroma
    /\ ret.val = 20

\* C9: when a step of write_cache fails, compression or file write, it
\* returns false: no abort, no true.
C9_WriterSignalsFailure ==
    io_err # {} => (pc = "Exited" /\ write_ret = Some(FALSE))

\* C10: each encoded vote count is the source count when that is
\* non-negative and 0 when it is negative.
C10_VotesClamp ==
    (pc = "Returned" /\ ret.fn = "generate_protobuf_votes")
        => /\ ret.val.up = (IF arg.stats.upvotes >= 0 THEN arg.stats.upvotes ELSE 0)
           /\ ret.val.down = (IF arg.stats.downvotes >= 0 THEN arg.stats.downvotes ELSE 0)

C10_Witness ==
    /\ pc = "Returned"
    /\ ret.fn = "generate_protobuf_votes"
    /\ arg.stats.upvotes = 2147483647
    /\ arg.stats.downvotes = -5
    /\ ret.val.up = 2147483647
    /\ ret.val.down = 0

\* C11: under the ordering contract no catalog entry is in more than one
\* answered page, and when the loop is in Done every entry the query selects
\* (auto-mapped ones are excluded by the query) has been in exactly one.
C11_EachEntryFetchedOnce ==
    /\ \A i \in catalog : fetched[i] <= 1
    /\ pc = "Done" => \A i \in catalog : ~Pool[i].automapper => fetched[i] = 1

\* C12: a query that fails with a ReqwestError leaves the snapshot and the
\* cursor as they are and puts the loop into the backoff; the backoff is
\* taken once, changes neither, and ends in Fetching with the same cursor.
C12_TransientFailureStep ==
    [][ /\ reqwest_errs' # reqwest_errs =>
              /\ pc = "Fetching"
              /\ pc' = "Retrying"
              /\ UNCHANGED <<map_list, current_time, last_map, caching, backoffs>>
        /\ pc = "Retrying" =>
              /\ pc' = "Fetching"
              /\ backoffs' = backoffs + 1
              /\ UNCHANGED <<map_list, current_time, last_map, caching>>
        /\ backoffs' # backoffs => pc = "Retrying" ]_vars

\* after one page, as many transient failures in a row as the client makes,
\* each slept off, and the loop is about to ask again
C12_Witness ==
    /\ pc = "Fetching"
    /\ caching
    /\ n_pages = 1
    /\ serde_errs = 0
    /\ reqwest_errs = MaxFails
    /\ backoffs = MaxFails
    /\ DOMAIN map_list # {}
    /\ current_time # Now

\* C13: a query that fails with a SerdeError leaves the snapshot, the cursor
\* and everything else of the loop as they are: the loop is in Fetching
\* again with caching still true, so it is not in Done and asks the same
\* question again.
C13_ParseFailureStep ==
    [][ serde_errs' # serde_errs =>
              /\ pc = "Fetching"
              /\ pc' = "Fetching"
              /\ caching'
              /\ UNCHANGED <<caching, current_time, last_map, map_list, page,
                             idx, backoffs>> ]_vars

\* after one page, only parse failures, as many as the client makes
C13_Witness ==
    /\ pc = "Fetching"
    /\ caching
    /\ n_pages = 1
    /\ reqwest_errs = 0
    /\ serde_errs = MaxFails
    /\ DOMAIN map_list # {}
    /\ current_time # Now

\* C14: a step enters Done only from Fetching on an answer that is neither
\* a non-empty page nor a failure, and it leaves snapshot and cursor alone;
\* an empty answer always enters Done; from Done no query is answered any
\* more and the snapshot stays what it was.
C14_DoneIffEmptyPage ==
    [][ /\ (pc # "Done" /\ pc' = "Done") =>
              /\ pc = "Fetching"
              /\ page' = <<>>
              /\ ~caching'
              /\ UNCHANGED <<n_pages, reqwest_errs, serde_errs>>
              /\ UNCHANGED <<map_list, current_time>>
        /\ (pc = "Fetching" /\ page' = <<>>
                /\ UNCHANGED <<n_pages, reqwest_errs, serde_errs>>) =>
              pc' = "Done"
        /\ pc = "Done" =>
              /\ pc' \in {"Exited", "Panicked"}
              /\ UNCHANGED <<map_list, current_time, page, n_pages,
                             reqwest_errs, serde_errs, backoffs>> ]_vars

\* Done after a page and after a failed query of either kind, with two
\* records collected
C14_Witness ==
    /\ pc = "Done"
    /\ ~caching
    /\ n_pages >= 1
    /\ reqwest_errs >= 1
    /\ serde_errs >= 1
    /\ Cardinality(DOMAIN map_list) = 2

\* C15 as stated: when the for loop has processed an entry that passes the
\* filter and whose id is already a key, the record under that id is the
\* encoding of that entry.
C15_LastEligibleWins ==
    [][ (/\ pc = "Processing"
         /\ idx' = idx + 1
         /\ ~Rejected(Pool[page[idx]])
         /\ Pool[page[idx]].id \in DOMAIN map_list)
        => CachedMapData[page[idx]]
              = Return(Some(map_list'[Pool[page[idx]].id])) ]_vars

\* C15 amended: when the for loop has processed an entry that passes the
\* filter and that the encoder can encode, the record under its id is its
\* encoding, whether the id was a key before or not, and every other record
\* is as before; any other entry leaves the snapshot as it was.
C15_LastEncodedWins ==
    [][ (pc = "Processing" /\ idx' = idx + 1)
        => LET i == page[idx]
               k == Pool[i].id
           IN  IF ~Rejected(Pool[i]) /\ Encodable(Pool[i])
               THEN /\ DOMAIN map_list' = DOMAIN map_list \cup {k}
                    /\ CachedMapData[i] = Return(Some(map_list'[k]))
                    /\ \A j \in DOMAIN map_list \ {k} : map_list'[j] = map_list[j]
               ELSE map_list' = map_list ]_vars

\* entries 1 and 3 carry the same id; both were processed, 3 last, and the
\* one record under that id is the encoding of entry 3
C15_Witness ==
    /\ pc = "Processing"
    /\ page = <<1, 3>>
    /\ idx = 3
    /\ DOMAIN map_list = {Pool[1].id}
    /\ map_list[Pool[1].id].hash = "h3"
    /\ CachedMapData[3] = Return(Some(map_list[Pool[3].id]))

\* C16: the snapshot starts empty; no step removes an identifier from it;
\* from Done on it is not changed at all.
C16_SnapshotOnlyGrows ==
    /\ map_list = EmptyMap
    /\ [][ /\ DOMAIN map_list \subseteq DOMAIN map_list'
           /\ pc \in {"Done", "Exited", "Panicked"} => map_list' = map_list ]_vars

\* the writer has returned after two pages, a failure of each kind and two
\* identifiers collected
C16_Witness ==
    /\ pc = "Exited"
    /\ n_pages = 2
    /\ reqwest_errs >= 1
    /\ serde_errs >= 1
    /\ Cardinality(DOMAIN map_list) = 2

\* C17: the cursor changes only when the loop finishes a non-empty page;
\* with every answered entry older than the cursor of its query (the
\* ordering contract) it never increases, and it decreases when the page
\* held an entry that passes the filter.
C17_CursorDecreasesOnEligiblePage ==
    [][ /\ current_time' # current_time => (pc = "Processing" /\ pc' = "Fetching")
        /\ current_time' <= current_time
        /\ (/\ pc = "Processing"
            /\ pc' = "Fetching"
            /\ \E j \in 1..Len(page) : ~Rejected(Pool[page[j]]))
           => current_time' < current_time ]_vars

\* the value of a string of hexadecimal digits, most significant first
RECURSIVE HexValue(_)
HexValue(s) ==
    IF s = <<>> THEN 0
    ELSE HexValue(SubSeq(s, 1, Len(s) - 1)) * 16 + HexDigit(s[Len(s)])

\* flag number b of a difficulty, in the bit order of the data model
FlagOf(diff, b) ==
    CASE b = 0 -> diff.cinema [] b = 1 -> diff.me [] b = 2 -> diff.chroma
      [] b = 3 -> diff.ne [] b = 4 -> diff.vivify

\* C18: every record of the snapshot has as key the hexadecimal value of
\* the id it is stored under, and there is an answered entry with that id
\* whose first version gives the record's hash, its mods (the OR of the
\* flags of that version's difficulties) and its difficulties (one per
\* difficulty of that version, in order, with that difficulty's own flags).
C18_RecordFromFirstVersion ==
    \A k \in DOMAIN map_list :
        LET rec == map_list[k]
        IN  /\ rec.key.hi * Limb + rec.key.lo = HexValue(k)
            /\ \E i \in eligible_seen :
                  LET v == Pool[i].versions[1]
                  IN  /\ Pool[i].id = k
                      /\ rec.hash = v.hash
                      /\ rec.mods \in 0..31
                      /\ \A b \in 0..4 :
                            Bit(rec.mods, b) = 1
                               <=> \E j \in 1..Len(v.diffs) : FlagOf(v.diffs[j], b)
                      /\ Len(rec.difficulties) = Len(v.diffs)
                      /\ \A j \in 1..Len(v.diffs) :
                            /\ rec.difficulties[j].difficulty_name = v.diffs[j].difficulty
                            /\ rec.difficulties[j].characteristic_name
                                  = v.diffs[j].characteristic
                            /\ rec.difficulties[j].njs = v.diffs[j].njs
                            /\ \A b \in 0..4 :
                                  Bit(rec.difficulties[j].mods, b) = 1
                                     <=> FlagOf(v.diffs[j], b)

\* the records of entry 1 (two difficulties, chroma on one and noodle on
\* the other) and of entry 2 (id "2B", a second version that is not the
\* published one) are both in the snapshot
C18_Witness ==
    /\ DOMAIN map_list = {Pool[1].id, Pool[2].id}
    /\ map_list[Pool[2].id].key = W(0, 43)
    /\ map_list[Pool[2].id].hash = "h2"
    /\ map_list[Pool[1].id].key = W(0, 26)
    /\ map_list[Pool[1].id].hash = "h1"
    /\ map_list[Pool[1].id].mods = 12
    /\ Len(map_list[Pool[1].id].difficulties) = 2
    /\ map_list[Pool[1].id].difficulties[1].mods = 4
    /\ map_list[Pool[1].id].difficulties[2].mods = 8

====
